---- MODULE Spec2Model ----
(***************************************************************************)
(* The view controller of frontend/js/app.js: the three module-level       *)
(* variables, the DOM the handlers write to, and every async function as a *)
(* bag of suspended invocations that resume when their fetch settles.      *)
(* The event loop runs one handler (or one continuation after an await) to *)
(* its next await without preemption, so each such run is one action.      *)
(***************************************************************************)
EXTENDS Integers, Sequences, FiniteSets, Bags, TLC

(***************************************************************************)
(* Bounds of the model.                                                    *)
(***************************************************************************)
\* The user starts another request only while fewer than MaxTasks invocations
\* are suspended; the loads a settled lookup starts are not held back.
MaxTasks == 2
\* Sentiment scores are k/ScoreScale for k in -(ScoreScale+1)..(ScoreScale+1).
ScoreScale == 2

(***************************************************************************)
(* JavaScript values.  Strings are sequences of one-character strings.     *)
(***************************************************************************)
Null == [t |-> "null", s |-> <<>>]
Undefined == [t |-> "undefined", s |-> <<>>]
Str(s) == [t |-> "string", s |-> s]
\* if (v) for a string, null or undefined
Truthy(v) == v.t = "string" /\ v.s # <<>>

NoNum == [t |-> "undefined", n |-> 0]
Num(n) == [t |-> "number", n |-> n]
\* v ? a : b for a number or undefined
TruthyNum(v) == v.t = "number" /\ v.n # 0

Whitespace == {" "}

RECURSIVE TrimStart(_)
TrimStart(s) ==
    IF s # <<>> /\ Head(s) \in Whitespace THEN TrimStart(Tail(s)) ELSE s

RECURSIVE TrimEnd(_)
TrimEnd(s) ==
    IF s # <<>> /\ s[Len(s)] \in Whitespace
    THEN TrimEnd(SubSeq(s, 1, Len(s) - 1))
    ELSE s

\* String.prototype.trim
Trim(s) == TrimEnd(TrimStart(s))

LowerOf(c) ==
    CASE c = "B" -> "b" [] c = "U" -> "u" [] c = "Y" -> "y"
      [] c = "S" -> "s" [] c = "E" -> "e" [] c = "L" -> "l"
      [] c = "H" -> "h" [] c = "O" -> "o" [] c = "D" -> "d"
      [] OTHER -> c

\* String.prototype.toLowerCase
ToLowerCase(s) == [i \in DOMAIN s |-> LowerOf(s[i])]

RECURSIVE Join(_)
\* the characters of s as one string
Join(s) == IF s = <<>> THEN "" ELSE Head(s) \o Join(Tail(s))

RECURSIVE EncodeURIComponent(_)
\* encodeURIComponent on the characters the inputs are made of
EncodeURIComponent(s) ==
    IF s = <<>> THEN <<>>
    ELSE (IF Head(s) = " " THEN <<"%", "2", "0">> ELSE <<Head(s)>>)
         \o EncodeURIComponent(Tail(s))

RECURSIVE Filter(_, _)
\* Array.prototype.filter(s => s !== '')
Filter(seq, drop) ==
    IF seq = <<>> THEN <<>>
    ELSE (IF Head(seq) = drop THEN <<>> ELSE <<Head(seq)>>)
         \o Filter(Tail(seq), drop)

(***************************************************************************)
(* Exact rationals for the sentiment arithmetic.                           *)
(***************************************************************************)
Rat(n, d) == [num |-> n, den |-> d]
RatAddInt(r, i) == Rat(r.num + i * r.den, r.den)
RatDivInt(r, i) == Rat(r.num, r.den * i)
RatMulInt(r, i) == Rat(r.num * i, r.den)
RatLeq(a, b) == a.num * b.den <= b.num * a.den
RatEq(a, b) == a.num * b.den = b.num * a.den

\* the score k/ScoreScale
Score(k) == Rat(k, ScoreScale)

SentimentPercentNoShift(sentimentScore) ==
    RatMulInt(RatDivInt(sentimentScore, 2), 100)

\* ((sentimentScore + 1) / 2) * 100
SentimentPercent(sentimentScore) ==
    RatMulInt(RatDivInt(RatAddInt(sentimentScore, 1), 2), 100)

(***************************************************************************)
(* The icons and messages the handlers write.                              *)
(***************************************************************************)
IconUp == "chart-increasing"
IconDown == "chart-decreasing"
IconPause == "pause"

BUY == <<"B", "U", "Y">>
SELL == <<"S", "E", "L", "L">>
HOLD == <<"H", "O", "L", "D">>

AlertEmptyInput == "Please enter a stock name or symbol"
AlertNotFound == "Could not find stock"
AlertTooFew == "Please enter at least 2 stocks to compare"
AlertTooMany == "Maximum 4 stocks can be compared"
AlertCompareError == "Error comparing stocks. Please try again."
NoAlert == ""

Periods == {"1mo", "6mo"}
DefaultPeriod == "6mo"

(***************************************************************************)
(* State.                                                                  *)
(***************************************************************************)
VARIABLES
    loaded,              \* DOMContentLoaded has run: the listeners are bound
    currentChart,        \* let currentChart: 0 is null, else a chart's id
    currentSymbol,       \* let currentSymbol
    currentCompanyName,  \* let currentCompanyName
    stockInput,          \* #stockInput.value
    compareInputs,       \* #compareInput1..4 .value
    analyzeBtn,          \* #analyzeBtn: disabled, .btn-text and .btn-loader display
    compareBtn,          \* #compareBtn, likewise
    trendingStocks,      \* #trendingStocks content
    resultsSection,      \* #resultsSection style.display
    decisionBanner,      \* #decisionBanner class, icon and title
    metricsContent,      \* #metricsContent content
    newsContent,         \* #newsContent content
    comparisonResults,   \* #comparisonResults display and content
    liveCharts,          \* Chart instances created and not destroyed
    activePeriod,        \* the .period-btn carrying class active
    tasks,               \* async invocations suspended at an await
    event,               \* the handler or continuation that ran last
    net,                 \* the requests that run issued, in order
    alertMsg,            \* the alert that run raised, "" for none
    lastQuery            \* the query of the latest lookup analyzeStock issued

globals == <<currentChart, currentSymbol, currentCompanyName>>
inputs == <<stockInput, compareInputs>>
buttons == <<analyzeBtn, compareBtn>>
analysisViews == <<resultsSection, decisionBanner, metricsContent, newsContent>>
otherViews == <<trendingStocks, comparisonResults, activePeriod>>
vars == <<loaded, globals, inputs, buttons, analysisViews, otherViews,
          liveCharts, tasks, event, net, alertMsg, lastQuery>>

ButtonIdle == [disabled |-> FALSE, btnText |-> "inline", btnLoader |-> "none"]
ButtonLoading == [disabled |-> TRUE, btnText |-> "none", btnLoader |-> "inline-block"]

(***************************************************************************)
(* The backend, seen from the client: what a fetch and its json() can      *)
(* settle to.  settle is "reject" (network error), "unparsable" (json()    *)
(* rejects) or "json".                                                     *)
(***************************************************************************)
Symbols == {<<"A">>, <<"B">>}
CompanyNameOf(sym) == sym \o <<"c", "o">>

NoAnalysis ==
    [symbol |-> Undefined, company_name |-> Undefined, decision |-> Undefined,
     sentiment_score |-> NoNum, price_change_6m |-> NoNum]

Analysis(sym, decision, k) ==
    [symbol |-> Str(sym), company_name |-> Str(CompanyNameOf(sym)),
     decision |-> decision, sentiment_score |-> k,
     price_change_6m |-> Num(3)]

Response(settle, ok, data) == [settle |-> settle, ok |-> ok, data |-> data]

\* GET /analyze/{segment}
AnalyzeResponses(segment, decisions, scores) ==
    {Response("reject", FALSE, NoAnalysis),
     Response("json", FALSE, NoAnalysis),
     Response("unparsable", TRUE, NoAnalysis),
     Response("json", TRUE, NoAnalysis)}
    \cup (IF segment \in Symbols
          THEN {Response("json", TRUE, Analysis(segment, d, k)) :
                    d \in decisions \cup {Undefined}, k \in scores}
          ELSE {})

OptionalFields == <<"high_52w", "low_52w", "market_cap", "volume", "pe_ratio">>
OptionalLabels ==
    <<"52-Week High", "52-Week Low", "Market Cap", "Volume", "P/E Ratio">>

NoMetrics ==
    [current_price |-> NoNum, day_change |-> NoNum,
     optional |-> [i \in DOMAIN OptionalFields |-> NoNum]]

Metrics(optional) ==
    [current_price |-> Num(5), day_change |-> Num(1), optional |-> optional]

\* GET /metrics/{symbol}: an error answered in JSON carries none of the
\* fields, and loadMetrics never looks at response.ok
MetricsResponses(optionalValues) ==
    {Response("reject", FALSE, NoMetrics),
     Response("unparsable", TRUE, NoMetrics),
     Response("json", FALSE, NoMetrics)}
    \cup {Response("json", TRUE, Metrics(o)) : o \in optionalValues}

\* GET /chart/{symbol}/{period}: data.data is an array, or is missing
ChartResponses ==
    {Response("reject", FALSE, FALSE), Response("unparsable", TRUE, FALSE),
     Response("json", TRUE, FALSE), Response("json", TRUE, TRUE)}

\* GET /news/{companyName}: data is the number of items of data.news
NewsResponses ==
    {Response("reject", FALSE, 0), Response("unparsable", TRUE, 0),
     Response("json", TRUE, 0), Response("json", TRUE, 2)}

\* GET /trending: data is data.trending_stocks as a list of symbols
TrendingResponses(cards) ==
    {Response("reject", FALSE, <<>>), Response("unparsable", TRUE, <<>>),
     Response("json", TRUE, <<>>), Response("json", TRUE, cards)}

\* POST /compare: data is whether comparison and best_performer are there
CompareResponses ==
    {Response("reject", FALSE, FALSE), Response("unparsable", TRUE, FALSE),
     Response("json", TRUE, FALSE), Response("json", TRUE, TRUE)}

\* the event a failed load leaves: a rejected fetch is a network error
Failure(what, r) ==
    IF r.settle = "reject" THEN what \o "NetworkError" ELSE what \o "Failed"

Request(method, path, segments, body) ==
    [method |-> method, path |-> path, segments |-> segments, body |-> body]

\* `${v}` of a string, null or undefined
ToStr(v) ==
    IF v.t = "string" THEN v.s
    ELSE IF v.t = "null" THEN <<"n", "u", "l", "l">>
    ELSE <<"u", "n", "d", "e", "f", "i", "n", "e", "d">>

(***************************************************************************)
(* Suspended invocations.                                                  *)
(***************************************************************************)
\* arg is the query, symbol or company name, stocks the list compareStocks
\* posts, data the metrics loadMetrics holds across its second await
Task(fn, pc, arg, period, stocks, data) ==
    [fn |-> fn, pc |-> pc, arg |-> arg, period |-> period,
     stocks |-> stocks, data |-> data]

\* the invocations suspended now; equal invocations are told apart by count
Suspended == BagToSet(tasks)
Suspend(ts, t) == ts (+) SetToBag({t})
Resume(ts, t) == ts (-) SetToBag({t})

\* the user may start another invocation
MayStart(ts) == BagCardinality(ts) < MaxTasks

(***************************************************************************)
(* Views.                                                                  *)
(***************************************************************************)
View(kind, of) == [kind |-> kind, of |-> of]

MetricsView(kind, of, rows, width) ==
    [kind |-> kind, of |-> of, rows |-> rows, width |-> width]

Row(label, value) == [label |-> label, value |-> value]

Banner(className, icon, decision, symbol) ==
    [className |-> className, icon |-> icon, decision |-> decision,
     symbol |-> symbol]

Init ==
    /\ loaded = FALSE
    /\ currentChart = 0
    /\ currentSymbol = Null
    /\ currentCompanyName = Null
    /\ stockInput = <<>>
    /\ compareInputs = << <<>>, <<>>, <<>>, <<>> >>
    /\ analyzeBtn = ButtonIdle
    /\ compareBtn = ButtonIdle
    /\ trendingStocks = View("initial", <<>>)
    /\ resultsSection = "none"
    /\ decisionBanner = Banner("decision-banner", "", Undefined, Undefined)
    /\ metricsContent = MetricsView("initial", <<>>, <<>>, Rat(0, 1))
    /\ newsContent = View("initial", <<>>)
    /\ comparisonResults = [display |-> "none", kind |-> "initial"]
    /\ liveCharts = {}
    /\ activePeriod = DefaultPeriod
    /\ tasks = EmptyBag
    /\ event = "load"
    /\ net = <<>>
    /\ alertMsg = NoAlert
    /\ lastQuery = <<>>

(***************************************************************************)
(* loadTrendingStocks and the DOMContentLoaded handler.                    *)
(***************************************************************************)
DOMContentLoaded ==
    /\ ~loaded
    /\ loaded' = TRUE
    /\ tasks' = Suspend(tasks,
                  Task("loadTrendingStocks", "fetch", <<>>, "", <<>>,
                NoMetrics))
    /\ net' = <<Request("GET", "/trending", <<>>, <<>>)>>
    /\ event' = "DOMContentLoaded"
    /\ alertMsg' = NoAlert
    /\ UNCHANGED <<globals, inputs, buttons, analysisViews, otherViews,
                   liveCharts, lastQuery>>

\* loadTrendingStocks after its awaits
TrendingSettle(t, r) ==
    /\ t \in Suspended /\ t.fn = "loadTrendingStocks"
    /\ tasks' = Resume(tasks, t)
    /\ trendingStocks' =
          IF r.settle # "json" THEN View("failed", <<>>)
          ELSE IF Len(r.data) > 0 THEN View("cards", r.data)
          ELSE View("empty", <<>>)
    /\ comparisonResults' = comparisonResults
    /\ activePeriod' = activePeriod
    /\ event' = IF r.settle # "json" THEN Failure("trending", r)
                 ELSE "trendingLoaded"
    /\ net' = <<>>
    /\ alertMsg' = NoAlert
    /\ UNCHANGED <<lastQuery, loaded,
                   globals, inputs, buttons, analysisViews, liveCharts>>

(***************************************************************************)
(* analyzeStock up to its await, and the three ways it is called.          *)
(***************************************************************************)
\* lines 80-95; stockInput and event are the caller's
analyzeStock(value) ==
    LET query == Trim(value) IN
    /\ IF query = <<>>
       THEN /\ alertMsg' = AlertEmptyInput
            /\ net' = <<>>
            /\ UNCHANGED <<analyzeBtn, tasks, lastQuery>>
       ELSE /\ MayStart(tasks)
            /\ lastQuery' = query
            /\ analyzeBtn' = ButtonLoading
            /\ tasks' = Suspend(tasks,
                  Task("analyzeStock", "fetch", query, "",
                        <<>>, NoMetrics))
            /\ net' = <<Request("GET", "/analyze",
                                <<EncodeURIComponent(query)>>, <<>>)>>
            /\ alertMsg' = NoAlert
    /\ UNCHANGED <<loaded, globals, compareInputs, compareBtn, analysisViews,
                   otherViews, liveCharts>>

\* the user edits #stockInput
TypeStockInput(value) ==
    /\ loaded
    /\ stockInput # value
    /\ stockInput' = value
    /\ event' = "input"
    /\ net' = <<>>
    /\ alertMsg' = NoAlert
    /\ UNCHANGED <<lastQuery, loaded,
                   globals, compareInputs, buttons, analysisViews,
                   otherViews, liveCharts, tasks>>

\* click on #analyzeBtn: a disabled button dispatches no click
AnalyzeClick ==
    /\ loaded
    /\ ~analyzeBtn.disabled
    /\ event' = "analyzeClick"
    /\ stockInput' = stockInput
    /\ analyzeStock(stockInput)

\* keypress Enter in #stockInput
EnterKey ==
    /\ loaded
    /\ event' = "enterKey"
    /\ stockInput' = stockInput
    /\ analyzeStock(stockInput)

\* click on a trending card
quickAnalyze(symbol) ==
    /\ trendingStocks.kind = "cards"
    /\ \E i \in DOMAIN trendingStocks.of : trendingStocks.of[i] = symbol
    /\ event' = "quickAnalyze"
    /\ stockInput' = symbol
    /\ analyzeStock(symbol)

(***************************************************************************)
(* displayResults.                                                         *)
(***************************************************************************)
BannerClassPlain(decision) == "decision-banner decision-" \o Join(decision)

\* 'decision-banner decision-' + data.decision.toLowerCase()
BannerClass(decision) ==
    "decision-banner decision-" \o Join(ToLowerCase(decision))

BannerIconSwapped(decision) ==
    IF decision = BUY THEN IconUp
    ELSE IF decision = HOLD THEN IconDown
    ELSE IconPause

\* the if / else if / else on data.decision
BannerIcon(decision) ==
    IF decision = BUY THEN IconUp
    ELSE IF decision = SELL THEN IconDown
    ELSE IconPause

\* what displayResults(data) leaves behind: toLowerCase of a decision that
\* is no string throws after the section is shown and before the banner is set
displayResults(data, banner) ==
    IF data.decision.t # "string"
    THEN [threw |-> TRUE, resultsSection |-> "block", banner |-> banner]
    ELSE [threw |-> FALSE, resultsSection |-> "block",
          banner |-> Banner(BannerClass(data.decision.s),
                            BannerIcon(data.decision.s),
                            data.decision, data.symbol)]

(***************************************************************************)
(* The loads up to their first await.                                      *)
(***************************************************************************)
loadMetricsStart(symbol) ==
    Task("loadMetrics", "metrics", ToStr(symbol), "", <<>>,
         NoMetrics)

loadChartStartDefault(symbol, period) ==
    Task("loadChart", "fetch", ToStr(symbol), DefaultPeriod, <<>>, NoMetrics)

loadChartStart(symbol, period) ==
    Task("loadChart", "fetch", ToStr(symbol), period, <<>>,
         NoMetrics)

loadNewsStart(companyName) ==
    Task("loadNews", "fetch", ToStr(companyName), "", <<>>,
         NoMetrics)

MetricsLoading == MetricsView("loading", <<>>, <<>>, Rat(0, 1))
MetricsFailed == MetricsView("failed", <<>>, <<>>, Rat(0, 1))

(***************************************************************************)
(* analyzeStock after its awaits.                                          *)
(***************************************************************************)
\* finally: the button is reset whatever happened
AnalyzeFinally(button) == ButtonIdle

\* lines 95-126, resumed with the settled lookup r
AnalyzeSettle(t, r) ==
    LET data == r.data
        shown == displayResults(data, decisionBanner)
        rest == Resume(tasks, t)
        m == loadMetricsStart(data.symbol)
        c == loadChartStart(data.symbol, DefaultPeriod)
        n == loadNewsStart(data.company_name)
    IN
    /\ t \in Suspended /\ t.fn = "analyzeStock"
    /\ analyzeBtn' = AnalyzeFinally(analyzeBtn)
    /\ IF r.settle # "json" \/ ~r.ok
       THEN \* fetch rejected, 'Stock not found' thrown, or json() rejected
            /\ alertMsg' = AlertNotFound
            /\ tasks' = rest
            /\ net' = <<>>
            /\ event' = "analyzeFailed"
            /\ UNCHANGED <<globals, analysisViews>>
       ELSE /\ currentSymbol' = data.symbol
            /\ currentCompanyName' = data.company_name
            /\ currentChart' = currentChart
            /\ resultsSection' = shown.resultsSection
            /\ decisionBanner' = shown.banner
            /\ IF shown.threw
               THEN /\ alertMsg' = AlertNotFound
                    /\ tasks' = rest
                    /\ net' = <<>>
                    /\ event' = "analyzeFailed"
                    /\ UNCHANGED <<metricsContent, newsContent>>
               ELSE /\ metricsContent' = MetricsLoading
                    /\ newsContent' = View("loading", <<>>)
                    /\ tasks' = Suspend(Suspend(Suspend(rest, m), c), n)
                    /\ net' = <<Request("GET", "/metrics", <<m.arg>>, <<>>),
                                Request("GET", "/chart",
                                        <<c.arg, <<c.period>> >>, <<>>),
                                Request("GET", "/news",
                                        <<EncodeURIComponent(n.arg)>>, <<>>)>>
                    /\ event' = "analyzeOk"
                    /\ alertMsg' = NoAlert
    /\ UNCHANGED <<lastQuery, loaded,
                   inputs, compareBtn, otherViews, liveCharts>>

(***************************************************************************)
(* loadMetrics after its awaits.                                           *)
(***************************************************************************)
\* after fetch(/metrics/symbol) and its json(): the second fetch is issued
MetricsSettle(t, r) ==
    /\ t \in Suspended /\ t.fn = "loadMetrics" /\ t.pc = "metrics"
    /\ IF r.settle # "json"
       THEN /\ metricsContent' = MetricsFailed
            /\ tasks' = Resume(tasks, t)
            /\ net' = <<>>
            /\ event' = Failure("metrics", r)
       ELSE /\ metricsContent' = metricsContent
            /\ tasks' = Suspend(Resume(tasks, t),
                  [t EXCEPT !.pc = "analysis", !.data = r.data])
            /\ net' = <<Request("GET", "/analyze", <<t.arg>>, <<>>)>>
            /\ event' = "metricsFetched"
    /\ alertMsg' = NoAlert
    /\ UNCHANGED <<lastQuery, loaded,
                   globals, inputs, buttons, resultsSection,
                   decisionBanner, newsContent, otherViews, liveCharts>>

OptionalRowAlways(data, i) == <<Row(OptionalLabels[i], data.optional[i])>>

\* ${data.field ? `<div class="metric-item">...</div>` : ''}
OptionalRow(data, i) ==
    IF TruthyNum(data.optional[i])
    THEN <<Row(OptionalLabels[i], data.optional[i])>>
    ELSE <<>>

RECURSIVE OptionalRows(_, _)
OptionalRows(data, i) ==
    IF i > Len(OptionalFields) THEN <<>>
    ELSE OptionalRow(data, i) \o OptionalRows(data, i + 1)

\* the rows of the template literal, in order
MetricsRows(data, analysisData) ==
    <<Row("Current Price", data.current_price),
      Row("Today's Change", data.day_change),
      Row("6-Month Change", analysisData.price_change_6m)>>
    \o OptionalRows(data, 1)
    \o <<Row("Sentiment Score", analysisData.sentiment_score)>>

\* the invocation t is resumed by this step
Settles(t) == CopiesIn(t, tasks') < CopiesIn(t, tasks)

MetricsAnalysisSettleIfCurrent(t, r) ==
    /\ t \in Suspended /\ t.fn = "loadMetrics" /\ t.pc = "analysis"
    /\ tasks' = Resume(tasks, t)
    /\ IF Str(t.arg) # currentSymbol
       THEN /\ metricsContent' = metricsContent
            /\ event' = "metricsStale"
       ELSE /\ metricsContent' =
                  MetricsView("rows", t.arg, MetricsRows(t.data, r.data),
                      SentimentPercent(Score(r.data.sentiment_score.n)))
            /\ event' = "metricsRendered"
    /\ net' = <<>>
    /\ alertMsg' = NoAlert
    /\ UNCHANGED <<lastQuery, loaded,
                   globals, inputs, buttons, resultsSection,
                   decisionBanner, newsContent, otherViews, liveCharts>>

\* after fetch(/analyze/symbol) and its json(): sentimentScore.toFixed throws
\* when the body carries no number
MetricsAnalysisSettle(t, r) ==
    /\ t \in Suspended /\ t.fn = "loadMetrics" /\ t.pc = "analysis"
    /\ tasks' = Resume(tasks, t)
    /\ IF r.settle # "json" \/ r.data.sentiment_score.t # "number"
       THEN /\ metricsContent' = MetricsFailed
            /\ event' = Failure("metrics", r)
       ELSE /\ metricsContent' =
                  MetricsView("rows", t.arg, MetricsRows(t.data, r.data),
                      SentimentPercent(Score(r.data.sentiment_score.n)))
            /\ event' = "metricsRendered"
    /\ net' = <<>>
    /\ alertMsg' = NoAlert
    /\ UNCHANGED <<lastQuery, loaded,
                   globals, inputs, buttons, resultsSection,
                   decisionBanner, newsContent, otherViews, liveCharts>>

(***************************************************************************)
(* loadChart after its awaits, and the period buttons.                     *)
(***************************************************************************)
Chart(id, symbol, period) == [id |-> id, symbol |-> symbol, period |-> period]

\* an id for new Chart(...): no live chart's, nor the one currentChart holds
FreeChartId(live, current) ==
    CHOOSE i \in 1..(Cardinality(live) + 2) :
        /\ i # current /\ \A c \in live : c.id # i
        /\ \A j \in 1..(i - 1) : j = current \/ \E c \in live : c.id = j

DestroyNothing(live, current) == live

\* if (currentChart) currentChart.destroy()
DestroyPrevious(live, current) ==
    IF current # 0 THEN {c \in live : c.id # current} ELSE live

ChartSettle(t, r) ==
    LET afterDestroy == DestroyPrevious(liveCharts, currentChart)
        id == FreeChartId(afterDestroy, currentChart)
    IN
    /\ t \in Suspended /\ t.fn = "loadChart"
    /\ tasks' = Resume(tasks, t)
    /\ IF r.settle # "json"
       THEN \* caught: console.error only
            /\ event' = Failure("chart", r)
            /\ UNCHANGED <<liveCharts, currentChart>>
       ELSE IF ~r.data
       THEN \* data.data.map throws after the destroy: caught, console.error
            /\ liveCharts' = afterDestroy
            /\ currentChart' = currentChart
            /\ event' = Failure("chart", r)
       ELSE /\ liveCharts' = afterDestroy \cup {Chart(id, t.arg, t.period)}
            /\ currentChart' = id
            /\ event' = "chartDrawn"
    /\ net' = <<>>
    /\ alertMsg' = NoAlert
    /\ UNCHANGED <<lastQuery, loaded,
                   currentSymbol, currentCompanyName, inputs, buttons,
                   analysisViews, otherViews>>

\* what the canvas #priceChart shows: the live charts, never a message
priceChart ==
    IF liveCharts = {} THEN View("blank", <<>>)
    ELSE LET c == CHOOSE x \in liveCharts : TRUE IN View("chart", c.symbol)

\* click on a .period-btn whose data-period is period
PeriodClick(period) ==
    LET c == loadChartStart(currentSymbol, period) IN
    /\ loaded
    /\ event' = "periodClick:" \o period
    /\ alertMsg' = NoAlert
    /\ IF Truthy(currentSymbol)
       THEN /\ MayStart(tasks)
            /\ activePeriod' = period
            /\ tasks' = Suspend(tasks, c)
            /\ net' = <<Request("GET", "/chart",
                                <<c.arg, <<c.period>> >>, <<>>)>>
       ELSE /\ net' = <<>>
            /\ UNCHANGED <<activePeriod, tasks>>
    /\ UNCHANGED <<lastQuery, loaded,
                   globals, inputs, buttons, analysisViews,
                   trendingStocks, comparisonResults, liveCharts>>

(***************************************************************************)
(* loadNews after its awaits.                                              *)
(***************************************************************************)
NewsSettle(t, r) ==
    /\ t \in Suspended /\ t.fn = "loadNews"
    /\ tasks' = Resume(tasks, t)
    /\ newsContent' =
          IF r.settle # "json" THEN View("failed", <<>>)
          ELSE IF r.data > 0 THEN View("items", t.arg)
          ELSE View("empty", <<>>)
    /\ event' = IF r.settle # "json" THEN Failure("news", r) ELSE "newsLoaded"
    /\ net' = <<>>
    /\ alertMsg' = NoAlert
    /\ UNCHANGED <<lastQuery, loaded,
                   globals, inputs, buttons, resultsSection,
                   decisionBanner, metricsContent, otherViews, liveCharts>>

(***************************************************************************)
(* compareStocks and displayComparison.                                    *)
(***************************************************************************)
\* the user edits #compareInput<i>
TypeCompareInput(i, value) ==
    /\ loaded
    /\ compareInputs[i] # value
    /\ compareInputs' = [compareInputs EXCEPT ![i] = value]
    /\ event' = "input"
    /\ net' = <<>>
    /\ alertMsg' = NoAlert
    /\ UNCHANGED <<lastQuery, loaded,
                   globals, stockInput, buttons, analysisViews,
                   otherViews, liveCharts, tasks>>

CollectUntrimmed(slots) == Filter(slots, <<>>)

\* [input1.value.trim(), ..., input4.value.trim()].filter(s => s !== '')
CollectStocks(slots) ==
    Filter([i \in DOMAIN slots |-> Trim(slots[i])], <<>>)

MinStocks == 2
MaxStocks == 4

\* click on #compareBtn: compareStocks up to its await
CompareClick ==
    LET stocks == CollectStocks(compareInputs) IN
    /\ loaded
    /\ ~compareBtn.disabled
    /\ event' = "compareClick"
    /\ IF Len(stocks) < MinStocks
       THEN /\ alertMsg' = AlertTooFew
            /\ net' = <<>>
            /\ UNCHANGED <<compareBtn, tasks>>
       ELSE IF Len(stocks) > MaxStocks
       THEN /\ alertMsg' = AlertTooMany
            /\ net' = <<>>
            /\ UNCHANGED <<compareBtn, tasks>>
       ELSE /\ MayStart(tasks)
            /\ compareBtn' = ButtonLoading
            /\ tasks' = Suspend(tasks,
                  Task("compareStocks", "fetch", <<>>, "",
                        stocks, NoMetrics))
            /\ net' = <<Request("POST", "/compare", <<>>, stocks)>>
            /\ alertMsg' = NoAlert
    /\ UNCHANGED <<lastQuery, loaded,
                   globals, inputs, analyzeBtn, analysisViews,
                   otherViews, liveCharts>>

\* compareStocks after its awaits: displayComparison shows the container,
\* then throws on a body without comparison or best_performer
CompareSettle(t, r) ==
    /\ t \in Suspended /\ t.fn = "compareStocks"
    /\ tasks' = Resume(tasks, t)
    /\ compareBtn' = ButtonIdle
    /\ IF r.settle # "json"
       THEN /\ alertMsg' = AlertCompareError
            /\ comparisonResults' = comparisonResults
            /\ event' = "compareFailed"
       ELSE IF ~r.data
       THEN /\ alertMsg' = AlertCompareError
            /\ comparisonResults' =
                  [comparisonResults EXCEPT !.display = "block"]
            /\ event' = "compareFailed"
       ELSE /\ alertMsg' = NoAlert
            /\ comparisonResults' = [display |-> "block", kind |-> "grid"]
            /\ event' = "compareShown"
    /\ net' = <<>>
    /\ UNCHANGED <<lastQuery, loaded,
                   globals, inputs, analyzeBtn, analysisViews,
                   trendingStocks, activePeriod, liveCharts>>

(***************************************************************************)
(* Inputs.  Each specification below is the event loop (any bound listener *)
(* may fire, any pending fetch may settle, in any order) over the inputs   *)
(* and backend answers one group of properties is about.                   *)
(***************************************************************************)
InRange(k) == -ScoreScale <= k /\ k <= ScoreScale
AllScores == {Num(k) : k \in (-(ScoreScale + 1))..(ScoreScale + 1)} \cup {NoNum}

Decisions == {Str(BUY), Str(SELL), Str(HOLD)}

AllPresent == [i \in DOMAIN OptionalFields |-> Num(7)]
NonePresent == [i \in DOMAIN OptionalFields |-> NoNum]
\* every optional field in turn missing, 0 or positive, the others all
\* present or all missing
OptionalValues ==
    {[base EXCEPT ![i] = v] :
        base \in {AllPresent, NonePresent}, i \in DOMAIN OptionalFields,
        v \in {NoNum, Num(0), Num(7)}}

Succeeded(r) == r.settle = "json" /\ r.ok

\* every answer to the lookup of t's query
Lookups(t, decisions) ==
    AnalyzeResponses(EncodeURIComponent(t.arg), decisions, {Num(0)})

\* the answers that carry a full AnalysisResult
GoodLookups(t, decisions) ==
    {r \in Lookups(t, decisions) : Succeeded(r) /\ r.data.decision.t = "string"}

\* every answer to loadMetrics' second request
Sentiments(t, scores) == AnalyzeResponses(t.arg, {Str(BUY)}, scores)

\* the answers to loadMetrics' second request that carry a score
GoodSentiments(t, scores) ==
    {r \in Sentiments(t, scores) :
        Succeeded(r) /\ r.data.sentiment_score.t = "number"}

Rejected(responses) == {r \in responses : r.settle = "reject"}
Good(responses) == {r \in responses : Succeeded(r)}
GoodCharts == {r \in ChartResponses : Succeeded(r) /\ r.data}

OneSymbolInputs == {<<>>, <<" ", "A">>}
TwoSymbolInputs == {<<"A">>, <<"B">>}
CompareInputValues == {<<>>, <<" ">>, <<"A">>, <<"B", " ">>}

(***************************************************************************)
(* Spec: the analysis page with one symbol; every lookup and every load    *)
(* may fail in every way.                                                  *)
(***************************************************************************)
Next ==
    \/ DOMContentLoaded
    \/ \E t \in Suspended : \E r \in TrendingResponses(<< <<"A">> >>) :
          TrendingSettle(t, r)
    \/ \E v \in OneSymbolInputs : TypeStockInput(v)
    \/ AnalyzeClick
    \/ EnterKey
    \/ \E s \in Symbols : quickAnalyze(s)
    \/ \E t \in Suspended : \E r \in Lookups(t, {Str(BUY)}) : AnalyzeSettle(t, r)
    \/ \E t \in Suspended : \E r \in MetricsResponses({AllPresent}) :
          MetricsSettle(t, r)
    \/ \E t \in Suspended : \E r \in Sentiments(t, {Num(0)}) :
          MetricsAnalysisSettle(t, r)
    \/ \E t \in Suspended : \E r \in ChartResponses : ChartSettle(t, r)
    \/ \E t \in Suspended : \E r \in NewsResponses : NewsSettle(t, r)

Spec == Init /\ [][Next]_vars

(***************************************************************************)
(* SpecChart: the period buttons and loadChart; the chart request may fail *)
(* in every way, a lookup too.                                             *)
(***************************************************************************)
NextChart ==
    \/ DOMContentLoaded
    \/ \E t \in Suspended : \E r \in Rejected(TrendingResponses(<<>>)) :
          TrendingSettle(t, r)
    \/ \E v \in OneSymbolInputs : TypeStockInput(v)
    \/ EnterKey
    \/ \E t \in Suspended : \E r \in Lookups(t, {Str(BUY)}) : AnalyzeSettle(t, r)
    \/ \E t \in Suspended : \E r \in Good(MetricsResponses({AllPresent})) :
          MetricsSettle(t, r)
    \/ \E t \in Suspended : \E r \in GoodSentiments(t, {Num(0)}) :
          MetricsAnalysisSettle(t, r)
    \/ \E t \in Suspended : \E r \in ChartResponses : ChartSettle(t, r)
    \/ \E p \in Periods : PeriodClick(p)
    \/ \E t \in Suspended : \E r \in Good(NewsResponses) : NewsSettle(t, r)

SpecChart == Init /\ [][NextChart]_vars

(***************************************************************************)
(* SpecRace: two symbols analysed one after the other, every fetch         *)
(* succeeds, the responses arrive in any order.                            *)
(***************************************************************************)
NextRace ==
    \/ DOMContentLoaded
    \/ \E t \in Suspended : \E r \in Rejected(TrendingResponses(<<>>)) :
          TrendingSettle(t, r)
    \/ \E v \in TwoSymbolInputs : TypeStockInput(v)
    \/ EnterKey
    \/ \E t \in Suspended : \E r \in GoodLookups(t, {Str(BUY)}) :
          AnalyzeSettle(t, r)
    \/ \E t \in Suspended : \E r \in Good(MetricsResponses({AllPresent})) :
          MetricsSettle(t, r)
    \/ \E t \in Suspended : \E r \in GoodSentiments(t, {Num(0)}) :
          MetricsAnalysisSettle(t, r)
    \/ \E t \in Suspended : \E r \in GoodCharts : ChartSettle(t, r)
    \/ \E t \in Suspended : \E r \in Good(NewsResponses) : NewsSettle(t, r)

SpecRace == Init /\ [][NextRace]_vars

(***************************************************************************)
(* SpecBanner: lookups answered with every decision.                       *)
(***************************************************************************)
NextBanner ==
    \/ DOMContentLoaded
    \/ \E t \in Suspended : \E r \in Rejected(TrendingResponses(<<>>)) :
          TrendingSettle(t, r)
    \/ \E v \in OneSymbolInputs : TypeStockInput(v)
    \/ AnalyzeClick
    \/ \E t \in Suspended :
          \E r \in Lookups(t, Decisions \cup {Str(ToLowerCase(BUY))}) :
              AnalyzeSettle(t, r)
    \/ \E t \in Suspended : \E r \in Good(MetricsResponses({AllPresent})) :
          MetricsSettle(t, r)
    \/ \E t \in Suspended : \E r \in GoodSentiments(t, {Num(0)}) :
          MetricsAnalysisSettle(t, r)
    \/ \E t \in Suspended : \E r \in GoodCharts : ChartSettle(t, r)
    \/ \E t \in Suspended : \E r \in Good(NewsResponses) : NewsSettle(t, r)

SpecBanner == Init /\ [][NextBanner]_vars

(***************************************************************************)
(* SpecMetrics: metrics answered with optional fields missing, 0 or        *)
(* positive.                                                               *)
(***************************************************************************)
NextMetrics ==
    \/ DOMContentLoaded
    \/ \E t \in Suspended : \E r \in Rejected(TrendingResponses(<<>>)) :
          TrendingSettle(t, r)
    \/ \E v \in OneSymbolInputs : TypeStockInput(v)
    \/ AnalyzeClick
    \/ \E t \in Suspended : \E r \in GoodLookups(t, {Str(BUY)}) :
          AnalyzeSettle(t, r)
    \/ \E t \in Suspended : \E r \in MetricsResponses(OptionalValues) :
          MetricsSettle(t, r)
    \/ \E t \in Suspended : \E r \in Sentiments(t, {Num(0)}) :
          MetricsAnalysisSettle(t, r)
    \/ \E t \in Suspended : \E r \in GoodCharts : ChartSettle(t, r)
    \/ \E t \in Suspended : \E r \in Good(NewsResponses) : NewsSettle(t, r)

SpecMetrics == Init /\ [][NextMetrics]_vars

(***************************************************************************)
(* SpecSentiment: loadMetrics' second request answered with every score,   *)
(* in range, out of range or missing.                                      *)
(***************************************************************************)
NextSentiment ==
    \/ DOMContentLoaded
    \/ \E t \in Suspended : \E r \in Rejected(TrendingResponses(<<>>)) :
          TrendingSettle(t, r)
    \/ \E v \in OneSymbolInputs : TypeStockInput(v)
    \/ AnalyzeClick
    \/ \E t \in Suspended : \E r \in GoodLookups(t, {Str(BUY)}) :
          AnalyzeSettle(t, r)
    \/ \E t \in Suspended : \E r \in Good(MetricsResponses({AllPresent})) :
          MetricsSettle(t, r)
    \/ \E t \in Suspended : \E r \in Sentiments(t, AllScores) :
          MetricsAnalysisSettle(t, r)
    \/ \E t \in Suspended : \E r \in GoodCharts : ChartSettle(t, r)
    \/ \E t \in Suspended : \E r \in Good(NewsResponses) : NewsSettle(t, r)

SpecSentiment == Init /\ [][NextSentiment]_vars

(***************************************************************************)
(* SpecCompare: the comparison form.                                       *)
(***************************************************************************)
NextCompare ==
    \/ DOMContentLoaded
    \/ \E t \in Suspended : \E r \in TrendingResponses(<<>>) : TrendingSettle(t, r)
    \/ \E i \in DOMAIN compareInputs : \E v \in CompareInputValues :
          TypeCompareInput(i, v)
    \/ CompareClick
    \/ \E t \in Suspended : \E r \in CompareResponses : CompareSettle(t, r)

SpecCompare == Init /\ [][NextCompare]_vars

(***************************************************************************)
(* Properties.                                                             *)
(***************************************************************************)
LookupInFlight == \E t \in Suspended : t.fn = "analyzeStock"

HasRow(rows, label) == \E j \in DOMAIN rows : rows[j].label = label

\* C1: a fetch of loadTrendingStocks, loadMetrics, loadChart or loadNews that
\* fails with a network error leaves its own container showing its 'Failed
\* to load ...' message and every other container exactly as it was.
C1_FailureShownInPlace ==
    [][/\ event' = "trendingNetworkError" =>
            /\ trendingStocks'.kind = "failed"
            /\ UNCHANGED <<analysisViews, comparisonResults, liveCharts,
                           currentChart>>
       /\ event' = "metricsNetworkError" =>
            /\ metricsContent'.kind = "failed"
            /\ UNCHANGED <<trendingStocks, resultsSection, decisionBanner,
                           newsContent, comparisonResults, liveCharts,
                           currentChart>>
       /\ event' = "chartNetworkError" =>
            /\ priceChart'.kind = "failed"
            /\ UNCHANGED <<trendingStocks, analysisViews, comparisonResults>>
       /\ event' = "newsNetworkError" =>
            /\ newsContent'.kind = "failed"
            /\ UNCHANGED <<trendingStocks, resultsSection, decisionBanner,
                           metricsContent, comparisonResults, liveCharts,
                           currentChart>>]_vars

\* C2: an analyzeStock invocation that ends in its failure path (the 'Could
\* not find stock' alert) leaves currentSymbol and currentCompanyName as
\* they were and has started no metrics, chart or news fetch.
C2_FailureKeepsSession ==
    [][event' = "analyzeFailed" =>
            /\ alertMsg' = AlertNotFound
            /\ currentSymbol' = currentSymbol
            /\ currentCompanyName' = currentCompanyName
            /\ net' = <<>>
            /\ \A t \in BagToSet(tasks') :
                  t.fn \in {"loadMetrics", "loadChart", "loadNews"} =>
                      CopiesIn(t, tasks') <= CopiesIn(t, tasks)]_vars

\* C10: the Analyze button is disabled, its loader shown and its text hidden,
\* exactly while some analyzeStock invocation has issued its lookup and not
\* yet reached its finally block.
C10_DisabledIffLookupInFlight ==
    /\ analyzeBtn.disabled <=> LookupInFlight
    /\ analyzeBtn.disabled <=> analyzeBtn.btnLoader = "inline-block"
    /\ analyzeBtn.disabled <=> analyzeBtn.btnText = "none"

\* the half that holds: the button is disabled only while a lookup is in
\* flight, and every invocation leaves it enabled at its finally block
DisabledOnlyWhileInFlight ==
    /\ analyzeBtn.disabled => LookupInFlight
    /\ analyzeBtn \in {ButtonIdle, ButtonLoading}
    /\ event \in {"analyzeOk", "analyzeFailed"} => analyzeBtn = ButtonIdle

\* one of two overlapping invocations has finished, the other has not
C10_EnabledWhileInFlight ==
    /\ event \in {"analyzeOk", "analyzeFailed"}
    /\ LookupInFlight
    /\ analyzeBtn = ButtonIdle

NonBlank(s) == \E j \in DOMAIN s : s[j] \notin Whitespace

\* the non-empty entries of the four slots, trimmed, in slot order
Entries(slots) ==
    LET kept == SelectSeq(slots, NonBlank)
    IN [i \in DOMAIN kept |-> Trim(kept[i])]

\* C3: compareStocks posts to /compare only when 2 to 4 slots are non-empty
\* after trimming, in one request whose stocks list is those entries in slot
\* order; otherwise it raises an alert, issues no request and leaves the
\* compare button and the comparison container alone.
C3_CompareOnlyTwoToFour ==
    [][LET entries == Entries(compareInputs) IN
       /\ event' = "compareClick" =>
            IF Len(entries) >= 2 /\ Len(entries) <= 4
            THEN net' = <<Request("POST", "/compare", <<>>, entries)>>
            ELSE /\ alertMsg' \in {AlertTooFew, AlertTooMany}
                 /\ net' = <<>>
                 /\ UNCHANGED <<compareBtn, comparisonResults>>
       /\ event' # "compareClick" =>
            \A i \in DOMAIN net' : net'[i].path # "/compare"]_vars

\* a request posted past a blank slot, with an entry that had to be trimmed
C3_PostedTrimmedPair ==
    /\ event = "compareClick"
    /\ net = <<Request("POST", "/compare", <<>>, << <<"A">>, <<"B">> >>)>>
    /\ \E i \in DOMAIN compareInputs : compareInputs[i] = <<" ">>

\* C4: however loadChart calls overlap and in whatever order their responses
\* arrive, at most one chart created and not destroyed exists, and it is the
\* one currentChart refers to.
C4_AtMostOneLiveChart ==
    /\ Cardinality(liveCharts) <= 1
    /\ \A c \in liveCharts : c.id = currentChart

\* a second chart has replaced the first while another loadChart is pending
C4_ReplacedWhileOverlapping ==
    /\ event = "chartDrawn"
    /\ currentChart = 2
    /\ \E c \in liveCharts : c.id = 2
    /\ \E t \in Suspended : t.fn = "loadChart"

BannerTable ==
    [d \in {BUY, SELL, HOLD} |->
        IF d = BUY THEN <<"decision-banner decision-buy", IconUp>>
        ELSE IF d = SELL THEN <<"decision-banner decision-sell", IconDown>>
        ELSE <<"decision-banner decision-hold", IconPause>>]

\* C5: for a decision of BUY, SELL or HOLD the banner shows the class and the
\* icon of that decision: decision-buy and the up-trend icon, decision-sell
\* and the down-trend icon, decision-hold and the pause icon; no two decisions
\* share a class or an icon.
C5_BannerMatchesDecision ==
    /\ decisionBanner.decision \in Decisions =>
          <<decisionBanner.className, decisionBanner.icon>>
              = BannerTable[decisionBanner.decision.s]
    /\ \A d, e \in {BUY, SELL, HOLD} :
          d # e => /\ BannerClass(d) # BannerClass(e)
                   /\ BannerIcon(d) # BannerIcon(e)

\* a SELL result is on display
C5_SellShown ==
    /\ decisionBanner.decision = Str(SELL)
    /\ decisionBanner.className = "decision-banner decision-sell"
    /\ decisionBanner.icon = IconDown

\* the score of the Sentiment Score row, in units of 1/ScoreScale
ShownScore == metricsContent.rows[Len(metricsContent.rows)].value.n

\* C6: the width of the sentiment bar is ((score + 1) / 2) * 100 for every
\* score in [-1, 1]: 0 at -1, 50 at 0, 100 at 1, never outside [0, 100], and
\* increasing in the score.
C6_SentimentWidthLinear ==
    /\ (metricsContent.kind = "rows" /\ InRange(ShownScore)) =>
          /\ RatEq(metricsContent.width,
                   Rat(100 * (ShownScore + ScoreScale), 2 * ScoreScale))
          /\ RatLeq(Rat(0, 1), metricsContent.width)
          /\ RatLeq(metricsContent.width, Rat(100, 1))
          /\ ShownScore = -ScoreScale => RatEq(metricsContent.width, Rat(0, 1))
          /\ ShownScore = 0 => RatEq(metricsContent.width, Rat(50, 1))
          /\ ShownScore = ScoreScale =>
                RatEq(metricsContent.width, Rat(100, 1))
    /\ \A a, b \in (-ScoreScale)..ScoreScale :
          a < b => /\ RatLeq(SentimentPercent(Score(a)),
                             SentimentPercent(Score(b)))
                   /\ ~RatEq(SentimentPercent(Score(a)),
                             SentimentPercent(Score(b)))

\* the bar of the lowest score is on display, empty
C6_LowestScoreShown ==
    /\ event = "metricsRendered"
    /\ ShownScore = -ScoreScale
    /\ RatEq(metricsContent.width, Rat(0, 1))

\* loadMetrics invocation t writes its rows in this step
Renders(t) ==
    /\ t.fn = "loadMetrics" /\ t.pc = "analysis"
    /\ Settles(t)
    /\ event' = "metricsRendered"

\* the four rows every rendering has, and no optional row without a number
AlwaysRendered(t, rows) ==
    /\ \A label \in {"Current Price", "Today's Change", "6-Month Change",
                     "Sentiment Score"} : HasRow(rows, label)
    /\ \A i \in DOMAIN OptionalFields :
          t.data.optional[i] = NoNum => ~HasRow(rows, OptionalLabels[i])
    /\ \A j \in DOMAIN rows :
          (\E i \in DOMAIN OptionalLabels : rows[j].label = OptionalLabels[i])
              => rows[j].value.t = "number"

\* C7 as stated: a missing optional field gets no row, the four fixed rows
\* are rendered, and every optional field that is present gets its row.
C7_PresentFieldsRendered ==
    [][\A t \in Suspended :
          Renders(t) =>
              /\ AlwaysRendered(t, metricsContent'.rows)
              /\ \A i \in DOMAIN OptionalFields :
                    t.data.optional[i].t = "number" =>
                        HasRow(metricsContent'.rows, OptionalLabels[i])]_vars

\* C7 amended: a missing optional field gets no row, the four fixed rows are
\* rendered, and an optional field gets its row exactly when it is present
\* with a value other than 0; a field that is 0 gets no row.
C7_NonZeroFieldsRendered ==
    [][\A t \in Suspended :
          Renders(t) =>
              /\ AlwaysRendered(t, metricsContent'.rows)
              /\ \A i \in DOMAIN OptionalFields :
                    HasRow(metricsContent'.rows, OptionalLabels[i])
                        <=> TruthyNum(t.data.optional[i])]_vars

\* rows rendered from a response with market_cap missing and volume present
C7_RowOmittedOthersKept ==
    /\ event = "metricsRendered"
    /\ ~HasRow(metricsContent.rows, "Market Cap")
    /\ HasRow(metricsContent.rows, "Volume")
    /\ HasRow(metricsContent.rows, "Current Price")

\* C9: no response is checked against the symbol that is current when it
\* arrives and no request is cancelled: every settled response is rendered,
\* and starting a lookup leaves the pending requests pending. So a lookup of
\* A followed by one of B can end with A's data shown under B.
C9_EveryResponseRendered ==
    [][/\ \A t \in Suspended :
            Settles(t) =>
               /\ (t.fn = "loadMetrics" /\ t.pc = "analysis") =>
                     /\ metricsContent'.kind = "rows"
                     /\ metricsContent'.of = t.arg
               /\ t.fn = "loadNews" =>
                     newsContent' \in {View("items", t.arg),
                                       View("empty", <<>>)}
               /\ t.fn = "loadChart" =>
                     liveCharts' = {Chart(currentChart', t.arg, t.period)}
               /\ t.fn = "analyzeStock" => currentSymbol' = Str(t.arg)
       /\ event' = "enterKey" =>
            \A t \in Suspended : CopiesIn(t, tasks') >= CopiesIn(t, tasks)
      ]_vars

\* everything has settled, B was requested last and is current, and the
\* metrics container shows A
C9_StaleMetricsShown ==
    /\ tasks = EmptyBag
    /\ lastQuery = <<"B">>
    /\ currentSymbol = Str(<<"B">>)
    /\ metricsContent.kind = "rows"
    /\ metricsContent.of = <<"A">>

====
